---- MODULE Spec2Model ----
(***************************************************************************)
(* Model of src/implementors/ethcore_io/panics/trait.MayPanic.js:          *)
(*   - the AddressSelect React component (render, renderSelectAccounts,    *)
(*     renderAccountItem, onChange), specification Spec;                   *)
(*   - the implementors registration IIFE of the documentation index,      *)
(*     specification SpecIndex.                                            *)
(***************************************************************************)
EXTENDS Integers, Sequences, FiniteSets, TLC

(* ------------------------------ bounds --------------------------------- *)
\* longest accounts mapping the caller supplies
MaxAccounts == 2
\* number of change-handler invocations explored
MaxEvents == 2
\* number of index-script runs explored on one page
MaxRuns == 12

(* --------------------------- JavaScript values ------------------------- *)
\* A JavaScript value: its type tag and, for primitives, its content.
Undefined == [t |-> "undefined", s |-> ""]
Null == [t |-> "null", s |-> ""]
Str(x) == [t |-> "string", s |-> x]
Bool(b) == [t |-> "boolean", s |-> IF b THEN "true" ELSE "false"]
Num(x) == [t |-> "number", s |-> x]
Event(x) == [t |-> "event", s |-> x]
Func(x) == [t |-> "function", s |-> x]

\* ToBoolean of a value, as used by || and by if (...)
Truthy(v) ==
  CASE v.t = "undefined" -> FALSE
    [] v.t = "null" -> FALSE
    [] v.t = "string" -> v.s # ""
    [] v.t = "boolean" -> v.s = "true"
    [] v.t = "number" -> v.s \notin {"0", "NaN"}
    [] OTHER -> TRUE

\* a || b
Or(a, b) == IF Truthy(a) THEN a ELSE b

\* typeof f === "function": whether f(...) can be called without a TypeError
IsCallable(f) == f.t = "function"

\* An object used as a mapping: its own enumerable string keys in insertion
\* order (no key here is an array index, so insertion order is kept).
Obj(entries) == [t |-> "object", entries |-> entries]
NoObj(tag) == [t |-> tag, entries |-> <<>>]

(* ------------------------------ inputs --------------------------------- *)
Account(address, name) == [address |-> Str(address), name |-> name]
Entry(key, account) == [key |-> key, val |-> account]

\* the entries a caller's accounts mapping is built from
Entries ==
  { Entry("0xAAA", Account("0xAAA", Str("Alice"))),
    Entry("0xBBB", Account("0xBBB", Undefined)),
    Entry("0xBBB", Account("0xBBB", Str(""))),
    Entry("0xCCC", Account("0xDDD", Str(" "))) }

RECURSIVE DistinctKeys(_)
DistinctKeys(es) ==
  IF Len(es) <= 1 THEN TRUE
  ELSE /\ \A k \in 2..Len(es) : es[k].key # es[1].key
       /\ DistinctKeys(Tail(es))

SeqsUpTo(S, n) == UNION { [1..k -> S] : k \in 0..n }

AccountsValues ==
  { Obj(es) : es \in { s \in SeqsUpTo(Entries, MaxAccounts) : DistinctKeys(s) } }
    \cup { NoObj("undefined"), NoObj("null") }

DisabledValues == { Undefined, Bool(TRUE), Bool(FALSE) }
ValueValues == { Undefined, Str(""), Str("0xAAA"), Str("0xZZZ") }
TextValues ==
  { [label |-> Undefined, hint |-> Undefined, error |-> Undefined],
    [label |-> Str("Account"), hint |-> Str("pick one"), error |-> Str("required")] }
OnChangeValues == { Func("callerOnChange"), Undefined }

PropsValues ==
  { [disabled |-> d, accounts |-> a, label |-> x.label, hint |-> x.hint,
     error |-> x.error, value |-> v, onChange |-> f] :
      d \in DisabledValues, a \in AccountsValues, x \in TextValues,
      v \in ValueValues, f \in OnChangeValues }

NoProps ==
  [disabled |-> Undefined, accounts |-> NoObj("undefined"), label |-> Undefined,
   hint |-> Undefined, error |-> Undefined, value |-> Undefined,
   onChange |-> Undefined]

\* the (event, idx, value) triples the Select reports: the first two differ
\* in idx only, the third carries a value that is no address of any account
ChangeValues ==
  { <<Event("e1"), Num("0"), Str("0xAAA")>>,
    <<Event("e1"), Num("1"), Str("0xAAA")>>,
    <<Event("e2"), Num("1"), Str("0xZZZ")>> }

(* ------------------------------- state --------------------------------- *)
VARIABLES
  props,      \* this.props of the AddressSelect instance
  supplied,   \* the props object as the caller built it for the last render
  output,     \* result of the last render: status and the element returned
  calls,      \* argument lists the caller's onChange was called with, in order
  nInv,       \* number of invocations of the change handler so far
  lastInv,    \* arguments and outcome of the last change-handler invocation
  register_implementors,  \* window.register_implementors
  pending_implementors,   \* window.pending_implementors
  delivered,  \* mappings window.register_implementors was called with, in order
  runs        \* number of runs of the index script so far

selectVars == <<props, supplied, output, calls, nInv, lastInv>>
indexVars == <<register_implementors, pending_implementors, delivered, runs>>
vars == <<props, supplied, output, calls, nInv, lastInv,
          register_implementors, pending_implementors, delivered, runs>>

(* --------------------------- AddressSelect ----------------------------- *)
\* Object.values(o): the values of o's own enumerable properties, in
\* property order; a TypeError for undefined and null.
ObjectValuesThrows(o) == o.t \in {"undefined", "null"}
ObjectValues(o) == [k \in 1..Len(o.entries) |-> o.entries[k].val]

\* variant: a name of blanks only is taken for no name (name.trim())
renderAccountItem_trimmedName(account) ==
  LET blank == account.name.t = "string" /\ account.name.s \in {"", " "}
      item ==
        [icon |-> [type |-> "IdentityIcon", inline |-> TRUE, center |-> TRUE,
                   address |-> account.address],
         name |-> IF blank THEN Str("Unnamed") ELSE Or(account.name, Str("Unnamed"))]
  IN [type |-> "MenuItem", key |-> account.address, value |-> account.address,
      label |-> item, children |-> item]

\* variant: the option's selection value is the display name
renderAccountItem_valueIsName(account) ==
  LET item ==
        [icon |-> [type |-> "IdentityIcon", inline |-> TRUE, center |-> TRUE,
                   address |-> account.address],
         name |-> Or(account.name, Str("Unnamed"))]
  IN [type |-> "MenuItem", key |-> account.address,
      value |-> Or(account.name, Str("Unnamed")),
      label |-> item, children |-> item]

\* renderAccountItem = (account) => <MenuItem key value label>{ item }</MenuItem>
renderAccountItem(account) ==
  LET item ==
        [icon |-> [type |-> "IdentityIcon", inline |-> TRUE, center |-> TRUE,
                   address |-> account.address],
         name |-> Or(account.name, Str("Unnamed"))]
  IN [type |-> "MenuItem", key |-> account.address, value |-> account.address,
      label |-> item, children |-> item]

\* variant: accounts without a name are left out of the list
renderSelectAccounts_skipUnnamed(p) ==
  LET vals == SelectSeq(ObjectValues(p.accounts), LAMBDA a : Truthy(a.name))
  IN [k \in 1..Len(vals) |-> renderAccountItem(vals[k])]

\* renderSelectAccounts (): Object.values(accounts).map(this.renderAccountItem)
renderSelectAccounts(p) ==
  LET vals == ObjectValues(p.accounts)
  IN [k \in 1..Len(vals) |-> renderAccountItem(vals[k])]

\* variant: a disabled selector lists no options
render_hidesWhenDisabled(p) ==
  [type |-> "Select", disabled |-> p.disabled, label |-> p.label,
   hint |-> p.hint, error |-> p.error, value |-> p.value,
   onChange |-> "this.onChange",
   children |-> IF Truthy(p.disabled) THEN <<>> ELSE renderSelectAccounts(p)]

\* variant: a value that is no listed address is cleared
render_correctsValue(p) ==
  LET known == { p.accounts.entries[k].val.address : k \in 1..Len(p.accounts.entries) }
  IN [type |-> "Select", disabled |-> p.disabled, label |-> p.label,
      hint |-> p.hint, error |-> p.error,
      value |-> IF p.value \in known THEN p.value ELSE Undefined,
      onChange |-> "this.onChange", children |-> renderSelectAccounts(p)]

\* render (): the Select element
render(p) ==
  [type |-> "Select", disabled |-> p.disabled, label |-> p.label,
   hint |-> p.hint, error |-> p.error, value |-> p.value,
   onChange |-> "this.onChange", children |-> renderSelectAccounts(p)]

\* variant: absent accounts are rendered as an empty list (accounts || {})
RenderResult_emptyFallback(p) ==
  IF ObjectValuesThrows(p.accounts)
    THEN [status |-> "rendered", tree |-> <<render([p EXCEPT !.accounts = Obj(<<>>)])>>]
    ELSE [status |-> "rendered", tree |-> <<render(p)>>]

\* outcome of one call of render() with this.props = p
RenderResult(p) ==
  IF ObjectValuesThrows(p.accounts)
    THEN [status |-> "threw", tree |-> <<>>]
    ELSE [status |-> "rendered", tree |-> <<render(p)>>]

\* variant: the component keeps the last chosen value and renders it
Render_keepsSelection(p) ==
  /\ supplied' = p
  /\ props' = p
  /\ output' = IF nInv > 0 THEN RenderResult([p EXCEPT !.value = lastInv.value])
                           ELSE RenderResult(p)
  /\ UNCHANGED <<calls, nInv, lastInv>>
  /\ UNCHANGED indexVars

\* The host runtime renders the component with the caller's props p.
Render(p) ==
  /\ supplied' = p
  /\ props' = p
  /\ output' = RenderResult(p)
  /\ UNCHANGED <<calls, nInv, lastInv>>
  /\ UNCHANGED indexVars

Mount ==
  /\ output.status = "unmounted"
  /\ \E p \in PropsValues : Render(p)

SetAccounts ==
  /\ output.status # "unmounted"
  /\ \E a \in AccountsValues : Render([props EXCEPT !.accounts = a])

SetDisabled ==
  /\ output.status # "unmounted"
  /\ \E d \in DisabledValues : Render([props EXCEPT !.disabled = d])

SetValue ==
  /\ output.status # "unmounted"
  /\ \E v \in ValueValues : Render([props EXCEPT !.value = v])

SetText ==
  /\ output.status # "unmounted"
  /\ \E x \in TextValues :
       Render([props EXCEPT !.label = x.label, !.hint = x.hint, !.error = x.error])

SetOnChange ==
  /\ output.status # "unmounted"
  /\ \E f \in OnChangeValues : Render([props EXCEPT !.onChange = f])

\* variant: all three arguments of the widget are handed on
onChange_forwardsIdx(event, idx, value) ==
  /\ nInv' = nInv + 1
  /\ IF IsCallable(props.onChange)
       THEN /\ calls' = Append(calls, <<event, idx, value>>)
            /\ lastInv' = [event |-> event, idx |-> idx, value |-> value,
                           threw |-> FALSE]
       ELSE /\ calls' = calls
            /\ lastInv' = [event |-> event, idx |-> idx, value |-> value,
                           threw |-> TRUE]
  /\ UNCHANGED <<props, supplied, output>>
  /\ UNCHANGED indexVars

\* onChange = (event, idx, value) => { this.props.onChange(event, value); }
onChange(event, idx, value) ==
  /\ nInv' = nInv + 1
  /\ IF IsCallable(props.onChange)
       THEN /\ calls' = Append(calls, <<event, value>>)
            /\ lastInv' = [event |-> event, idx |-> idx, value |-> value,
                           threw |-> FALSE]
       ELSE /\ calls' = calls
            /\ lastInv' = [event |-> event, idx |-> idx, value |-> value,
                           threw |-> TRUE]
  /\ UNCHANGED <<props, supplied, output>>
  /\ UNCHANGED indexVars

\* The rendered Select reports a selection change to the handler it was given.
Change ==
  /\ output.status = "rendered"
  /\ nInv < MaxEvents
  /\ \E c \in ChangeValues : onChange(c[1], c[2], c[3])

(* ------------------- implementors registration script ------------------ *)
\* var implementors = {}; implementors["<crate>"] = [<fragments>]; ...
\* Every run of the script builds a fresh object; id tells the runs apart,
\* entries are the crate keys with the number of fragments listed for each.
Implementors(id) ==
  [t |-> "object", id |-> id,
   entries |-> << <<"ethcore_network", 1>>, <<"ethcore", 2>>, <<"ethsync", 1>>,
                  <<"ethcore_signer", 1>>, <<"parity", 3>> >>]

\* window.pending_implementors before anything assigned it
NoImplementors == [t |-> "undefined", id |-> 0, entries |-> <<>>]

\* variant: the mapping is stored in the slot on both routes
RunScript_alwaysPending ==
  /\ runs < MaxRuns
  /\ runs' = runs + 1
  /\ LET implementors == Implementors(runs + 1)
     IN /\ pending_implementors' = implementors
        /\ delivered' = IF Truthy(register_implementors)
                          THEN Append(delivered, implementors)
                          ELSE delivered
  /\ UNCHANGED register_implementors
  /\ UNCHANGED selectVars

\* variant: a filled slot is kept (pending = pending || implementors)
RunScript_keepsFirst ==
  /\ runs < MaxRuns
  /\ runs' = runs + 1
  /\ LET implementors == Implementors(runs + 1)
     IN IF Truthy(register_implementors)
          THEN /\ delivered' = Append(delivered, implementors)
               /\ UNCHANGED pending_implementors
          ELSE /\ pending_implementors' =
                    IF Truthy(pending_implementors) THEN pending_implementors
                                                    ELSE implementors
               /\ UNCHANGED delivered
  /\ UNCHANGED register_implementors
  /\ UNCHANGED selectVars

\* (function() { ... if (window.register_implementors) { ... } else { ... } })()
RunScript ==
  /\ runs < MaxRuns
  /\ runs' = runs + 1
  /\ LET implementors == Implementors(runs + 1)
     IN IF Truthy(register_implementors)
          THEN /\ delivered' = Append(delivered, implementors)
               /\ UNCHANGED pending_implementors
          ELSE /\ pending_implementors' = implementors
               /\ UNCHANGED delivered
  /\ UNCHANGED register_implementors
  /\ UNCHANGED selectVars

\* The documentation browser installs window.register_implementors and
\* consumes a mapping left in window.pending_implementors.
InstallCallback ==
  /\ ~Truthy(register_implementors)
  /\ register_implementors' = Func("register_implementors")
  /\ delivered' = IF Truthy(pending_implementors)
                    THEN Append(delivered, pending_implementors)
                    ELSE delivered
  /\ UNCHANGED <<pending_implementors, runs>>
  /\ UNCHANGED selectVars

InitIndex ==
  /\ register_implementors = Undefined
  /\ pending_implementors = NoImplementors
  /\ delivered = <<>>
  /\ runs = 0

NextIndex ==
  \/ RunScript
  \/ InstallCallback


InitSelect ==
  /\ props = NoProps
  /\ supplied = NoProps
  /\ output = [status |-> "unmounted", tree |-> <<>>]
  /\ calls = <<>>
  /\ nInv = 0
  /\ lastInv = [event |-> Undefined, idx |-> Undefined, value |-> Undefined,
                threw |-> FALSE]

Init == InitSelect /\ InitIndex

Next ==
  \/ Mount
  \/ SetAccounts
  \/ SetDisabled
  \/ SetValue
  \/ SetText
  \/ SetOnChange
  \/ Change

Spec == Init /\ [][Next]_vars

SpecIndex == Init /\ [][NextIndex]_vars

(* ------------------------------ properties ----------------------------- *)
Rendered == output.status = "rendered"
Tree == output.tree[1]
Options == Tree.children
AccountAt(k) == props.accounts.entries[k].val
HandlerStep == nInv' = nInv + 1
ScriptStep == runs' = runs + 1
Installed == Truthy(register_implementors)

\* C1: one invocation of the change handler with (e, i, v), the caller's
\* onChange being a function, appends exactly one call with the two
\* arguments (e, v) to the caller's calls, within the same step and leaving
\* props and output alone; the calls never outnumber the invocations.
C1_ForwardsEventAndValue ==
  /\ [](Len(calls) <= nInv)
  /\ [][(HandlerStep /\ IsCallable(props.onChange)) =>
          /\ calls' = Append(calls, <<lastInv'.event, lastInv'.value>>)
          /\ Len(calls'[Len(calls')]) = 2
          /\ ~lastInv'.threw
          /\ props' = props
          /\ output' = output]_vars

\* C1 witness: two invocations gave two different calls in order, the last
\* with index 1 and a value that is no listed address.
C1_Witness ==
  /\ nInv = 2
  /\ Len(calls) = 2
  /\ calls[1] = <<Event("e1"), Str("0xAAA")>>
  /\ calls[2] = <<Event("e2"), Str("0xZZZ")>>
  /\ lastInv.idx = Num("1")

\* C2: a successful render lists exactly one MenuItem per entry of the
\* accounts mapping, and a render of any mapping, the empty one included,
\* succeeds.
C2_OneOptionPerEntry ==
  /\ Rendered =>
       /\ Len(Options) = Len(props.accounts.entries)
       /\ \A k \in 1..Len(Options) : Options[k].type = "MenuItem"
  /\ (output.status # "unmounted" /\ props.accounts.t = "object") => Rendered

\* C2 witness: the empty mapping rendered with no option.
C2_Witness ==
  /\ Rendered
  /\ props.accounts = Obj(<<>>)
  /\ Options = <<>>

\* C3: the name label of every option is the account's name when that is a
\* non-empty string and "Unnamed" otherwise; label and content of the
\* option are the same row.
C3_NameOrUnnamed ==
  Rendered =>
    \A k \in 1..Len(Options) :
      LET name == AccountAt(k).name
      IN /\ Options[k].children.name =
              IF name.t = "string" /\ name.s # "" THEN name ELSE Str("Unnamed")
         /\ Options[k].label = Options[k].children

\* C3 witness: a name of one blank is shown as it is, next to an empty name
\* shown as "Unnamed".
C3_Witness ==
  /\ Rendered
  /\ Len(Options) = 2
  /\ AccountAt(1).name = Str(" ")
  /\ Options[1].children.name = Str(" ")
  /\ AccountAt(2).name = Str("")
  /\ Options[2].children.name = Str("Unnamed")

\* the option the dropdown widget highlights: the one whose value is the
\* widget's value
Selected(tree) == { k \in 1..Len(tree.children) : tree.children[k].value = tree.value }

ScenarioAccounts ==
  Obj(<< Entry("0xAAA", Account("0xAAA", Str("Alice"))),
         Entry("0xBBB", Account("0xBBB", Undefined)) >>)

\* C4: key, selection value and icon address of every option are the
\* address field of the entry's Account record; in the scenario the options
\* are "Alice" with key "0xAAA" and "Unnamed" with key "0xBBB", and the
\* option selected under value "0xAAA" is the first.
C4_KeyAndValueAreAddress ==
  Rendered =>
    /\ \A k \in 1..Len(Options) :
         /\ Options[k].key = AccountAt(k).address
         /\ Options[k].value = AccountAt(k).address
         /\ Options[k].children.icon.address = AccountAt(k).address
    /\ (props.accounts = ScenarioAccounts /\ props.value = Str("0xAAA")) =>
         /\ Len(Options) = 2
         /\ Options[1].key = Str("0xAAA")
         /\ Options[1].children.name = Str("Alice")
         /\ Options[2].key = Str("0xBBB")
         /\ Options[2].children.name = Str("Unnamed")
         /\ Selected(Tree) = {1}

\* C4 witness: the scenario is rendered.
C4_Witness ==
  /\ Rendered
  /\ props.accounts = ScenarioAccounts
  /\ props.value = Str("0xAAA")
  /\ Selected(Tree) = {1}

\* C5: the Select's disabled is the disabled prop, and a render that leaves
\* the accounts as they were leaves the options as they were, whatever
\* happens to disabled.
C5_DisabledPassedOptionsKept ==
  /\ [](Rendered => Tree.disabled = supplied.disabled)
  /\ [][(Rendered /\ output'.status = "rendered"
           /\ props'.accounts = props.accounts) =>
          output'.tree[1].children = output.tree[1].children]_vars

\* C5 witness: a disabled selector with two options.
C5_Witness ==
  /\ Rendered
  /\ supplied.disabled = Bool(TRUE)
  /\ Tree.disabled = Bool(TRUE)
  /\ Len(Options) = 2

\* C6: label, hint, error and value of the Select are the props of the same
\* names as the caller supplied them.
C6_PassThrough ==
  Rendered =>
    /\ Tree.label = supplied.label
    /\ Tree.hint = supplied.hint
    /\ Tree.error = supplied.error
    /\ Tree.value = supplied.value

\* C6 witness: a value that is no key of the accounts reaches the Select.
C6_Witness ==
  /\ Rendered
  /\ supplied.value = Str("0xZZZ")
  /\ Tree.value = Str("0xZZZ")
  /\ Tree.label = Str("Account")
  /\ Len(Options) = 1

\* C7: the props the component holds are the props the caller supplied; the
\* caller's onChange is called in no step but a handler invocation; a step
\* that leaves the props equal leaves the output equal; and the output is
\* always the one a fresh render of the current props gives.
C7_RenderIsPure ==
  /\ [](props = supplied)
  /\ [](output.status # "unmounted" => output = RenderResult(props))
  /\ [][~HandlerStep => calls' = calls]_vars
  /\ [][(output.status # "unmounted" /\ props' = props) => output' = output]_vars

\* C7 witness: after two forwarded changes the output shows the value prop,
\* not the value chosen last.
C7_Witness ==
  /\ Rendered
  /\ nInv = 2
  /\ Len(calls) = 2
  /\ lastInv.value = Str("0xZZZ")
  /\ Tree.value = Str("0xAAA")

FiveCrates ==
  {"ethcore_network", "ethcore", "ethsync", "ethcore_signer", "parity"}
Crates(m) == { m.entries[k][1] : k \in 1..Len(m.entries) }

\* C8: a run of the script either calls the installed callback once with
\* its mapping and leaves the slot alone, or, with no callback, stores the
\* mapping in the slot and calls nothing; no mapping is delivered twice;
\* and after one run the mapping is with the browser if the callback is
\* installed and in the slot if it is not.
C8_ExactlyOneRoute ==
  /\ [][ScriptStep =>
          IF Installed
            THEN /\ Len(delivered') = Len(delivered) + 1
                 /\ SubSeq(delivered', 1, Len(delivered)) = delivered
                 /\ delivered'[Len(delivered')].id = runs'
                 /\ Crates(delivered'[Len(delivered')]) = FiveCrates
                 /\ pending_implementors' = pending_implementors
            ELSE /\ pending_implementors'.id = runs'
                 /\ Crates(pending_implementors') = FiveCrates
                 /\ delivered' = delivered]_vars
  /\ [](\A i, j \in 1..Len(delivered) : delivered[i].id = delivered[j].id => i = j)
  /\ [](runs = 1 =>
          IF Installed
            THEN Len(delivered) = 1 /\ delivered[1].id = 1
            ELSE delivered = <<>> /\ pending_implementors.id = 1)

\* C8 witness: the script ran first, the callback came after and got the
\* mapping out of the slot.
C8_Witness ==
  /\ runs = 1
  /\ Installed
  /\ pending_implementors.id = 1
  /\ Len(delivered) = 1
  /\ delivered[1].id = 1

C10_SlotHoldsLatestOnly ==
  /\ []((~Installed /\ runs >= 1) =>
          (pending_implementors.id = runs /\ delivered = <<>>))
  /\ [](\A k \in 1..Len(delivered) : delivered[k].id >= pending_implementors.id)
  /\ [][(ScriptStep /\ Installed) => pending_implementors' = pending_implementors]_vars

\* C10 witness: three runs before the callback, the browser got the third
\* mapping only.
C10_Witness ==
  /\ runs = 3
  /\ Installed
  /\ pending_implementors.id = 3
  /\ Len(delivered) = 1
  /\ delivered[1].id = 3

====
